---- MODULE Spec2Model ----
(***************************************************************************)
(* MCPClient (src/unnamed/part_002): the JSON-RPC client that talks to a   *)
(* spawned subprocess over stdio.  The client's fields are the variables,  *)
(* every event-loop callback of the class is one action.                   *)
(*                                                                         *)
(* The wire is modelled at byte level.  A model byte is either one real    *)
(* byte or a fixed run of bytes that the model never cuts:                 *)
(*   "{" "}" "," "0".."9" " " "\n"   themselves                            *)
(*   "q"        the double quote                                           *)
(*   "a"        an ASCII letter inside a JSON string                       *)
(*   "I" "R" "E" "M" "G"   the keys "id": "result": "error": "method":     *)
(*                         "message":  (key, quotes and colon)             *)
(*   "N"        the literal null                                           *)
(*   "C3" "A9"  the two bytes of the UTF-8 encoding of U+00E9              *)
(* A decoded string is a sequence of characters: the ASCII symbols above,  *)
(* "U+00E9", and "U+FFFD" (the replacement character).                     *)
(***************************************************************************)
EXTENDS Integers, Sequences, FiniteSets, TLC

\* ------------------------------------------------------------------ bounds

\* Lines in one inbound stream of the framing specification.
MaxLines == 3

\* Subprocesses the client may spawn in one run of Spec and of SpecServer.
MaxProcs == 2

\* Requests the client may send in one run.
MaxReq == 2

\* ------------------------------------------------------- program constants

maxReconnectAttempts == 3

\* ------------------------------------------------------------ JSON values

Undefined == [t |-> "undefined"]
JNull == [t |-> "null"]
Num(n) == [t |-> "number", n |-> n]
Str(s) == [t |-> "string", s |-> s]
Obj(f) == [t |-> "object", o |-> f]
EmptyFields == [k \in {} |-> Undefined]

\* obj[k] = v on a fields function (a later duplicate key overwrites).
SetField(f, k, v) == [x \in (DOMAIN f) \cup {k} |-> IF x = k THEN v ELSE f[x]]

\* message.k for a non-null value: a primitive has no such property.
Get(v, k) == IF v.t = "object" /\ k \in DOMAIN v.o THEN v.o[k] ELSE Undefined

\* JavaScript truthiness of a JSON value.
Truthy(v) ==
  CASE v.t = "undefined" -> FALSE
    [] v.t = "null" -> FALSE
    [] v.t = "number" -> v.n # 0
    [] v.t = "string" -> v.s # <<>>
    [] OTHER -> TRUE

\* ------------------------------------------------- Buffer.toString (UTF-8)

RECURSIVE Decode(_, _)
\* UTF-8 decoding of data[i..]: a lead byte with no continuation byte after it,
\* and a continuation byte with no lead byte before it, each decode to U+FFFD.
Decode(data, i) ==
  IF i > Len(data) THEN <<>>
  ELSE IF data[i] = "C3"
    THEN IF i < Len(data) /\ data[i + 1] = "A9"
           THEN <<"U+00E9">> \o Decode(data, i + 2)
           ELSE <<"U+FFFD">> \o Decode(data, i + 1)
  ELSE IF data[i] = "A9" THEN <<"U+FFFD">> \o Decode(data, i + 1)
  ELSE <<data[i]>> \o Decode(data, i + 1)

\* data.toString(): the chunk is decoded on its own.
toString(data) == Decode(data, 1)

\* ------------------------------------------------------ String.split('\n')

RECURSIVE SplitNL(_, _, _)
\* s.split('\n') from index i on, with from the start of the current segment
SplitNL(s, from, i) ==
  IF i > Len(s) THEN <<SubSeq(s, from, Len(s))>>
  ELSE IF s[i] = "\n" THEN <<SubSeq(s, from, i - 1)>> \o SplitNL(s, i + 1, i + 1)
  ELSE SplitNL(s, from, i + 1)

Split(s) == SplitNL(s, 1, 1)

\* line.trim() is a non-empty string.
TrimNonEmpty(line) == \E i \in 1..Len(line) : line[i] # " "

\* --------------------------------------------------------------- JSON.parse

Digits == {"0", "1", "2", "3", "4", "5", "6", "7", "8", "9"}
DigitVal(d) ==
  CASE d = "0" -> 0 [] d = "1" -> 1 [] d = "2" -> 2 [] d = "3" -> 3 [] d = "4" -> 4
    [] d = "5" -> 5 [] d = "6" -> 6 [] d = "7" -> 7 [] d = "8" -> 8 [] d = "9" -> 9
Keys == {"I", "R", "E", "M", "G"}
KeyName(k) ==
  CASE k = "I" -> "id" [] k = "R" -> "result" [] k = "E" -> "error"
    [] k = "M" -> "method" [] k = "G" -> "message"

ParseFail == [ok |-> FALSE, val |-> Undefined, nxt |-> 0]
ParseOk(v, n) == [ok |-> TRUE, val |-> v, nxt |-> n]

RECURSIVE SkipWs(_, _)
SkipWs(s, i) == IF i <= Len(s) /\ s[i] = " " THEN SkipWs(s, i + 1) ELSE i

RECURSIVE DigitsEnd(_, _)
\* index after the run of digits that starts at i
DigitsEnd(s, i) == IF i <= Len(s) /\ s[i] \in Digits THEN DigitsEnd(s, i + 1) ELSE i

RECURSIVE NumVal(_, _, _)
NumVal(s, i, j) == IF j < i THEN 0 ELSE 10 * NumVal(s, i, j - 1) + DigitVal(s[j])

RECURSIVE QuoteAt(_, _)
\* index of the first double quote at or after i, 0 when there is none
QuoteAt(s, i) == IF i > Len(s) THEN 0 ELSE IF s[i] = "q" THEN i ELSE QuoteAt(s, i + 1)

RECURSIVE ParseValue(_, _)
RECURSIVE ParseMembers(_, _, _)
\* one JSON value starting at s[i]: a number (no leading zero), a string,
\* null, or an object
ParseValue(s, i) ==
  IF i > Len(s) THEN ParseFail
  ELSE IF s[i] \in Digits THEN
    LET e == DigitsEnd(s, i) IN
    IF s[i] = "0" /\ e > i + 1 THEN ParseFail
    ELSE ParseOk(Num(NumVal(s, i, e - 1)), e)
  ELSE IF s[i] = "q" THEN
    LET c == QuoteAt(s, i + 1) IN
    IF c = 0 THEN ParseFail ELSE ParseOk(Str(SubSeq(s, i + 1, c - 1)), c + 1)
  ELSE IF s[i] = "N" THEN ParseOk(JNull, i + 1)
  ELSE IF s[i] = "{" THEN
    LET j == SkipWs(s, i + 1) IN
    IF j <= Len(s) /\ s[j] = "}" THEN ParseOk(Obj(EmptyFields), j + 1)
    ELSE ParseMembers(s, j, EmptyFields)
  ELSE ParseFail

\* key value ( "," key value )* "}" with the fields read so far in f
ParseMembers(s, i, f) ==
  IF i > Len(s) \/ s[i] \notin Keys THEN ParseFail
  ELSE
    LET v == ParseValue(s, SkipWs(s, i + 1)) IN
    IF ~v.ok THEN ParseFail
    ELSE
      LET j == SkipWs(s, v.nxt)
          g == SetField(f, KeyName(s[i]), v.val)
      IN IF j > Len(s) THEN ParseFail
         ELSE IF s[j] = "}" THEN ParseOk(Obj(g), j + 1)
         ELSE IF s[j] = "," THEN ParseMembers(s, SkipWs(s, j + 1), g)
         ELSE ParseFail

\* JSON.parse(text): [ok, val]; ok = FALSE is the SyntaxError.
ParseText(text) ==
  LET v == ParseValue(text, SkipWs(text, 1)) IN
  IF v.ok /\ SkipWs(text, v.nxt) > Len(text) THEN [ok |-> TRUE, val |-> v.val]
  ELSE [ok |-> FALSE, val |-> Undefined]

\* ------------------------------------------------------------------- state

VARIABLES
  process,            \* this.process: 0 is null, p > 0 the p-th spawned subprocess
  isConnected,        \* this.isConnected
  requestId,          \* this.requestId
  pendingRequests,    \* this.pendingRequests: id -> [call], the closures of that call
  buffer,             \* this.buffer (decoded characters)
  reconnectAttempts,  \* this.reconnectAttempts
  procs,              \* the subprocesses whose 'close' has not been emitted:
                      \* p -> [killed]
  timers,             \* the calls whose 60 s timer is armed
  handshakeTimers,    \* the connect calls whose 3 s handshake timer is armed
  reconnectTimers,    \* the number of armed 2 s reconnect timers
  connects,           \* the connect() promises not yet settled: p -> [by], p the
                      \* subprocess the call spawned, by who called
  calls,              \* the sendRequest promises still referenced by a timer or by
                      \* pendingRequests, or never settled: k -> [id, method, conn, settled]
  history,            \* counters of what has happened: spawns by callers and by the
                      \* reconnect timer, requests sent, handshakes completed, ids used
  stream,             \* framing: the bytes the subprocess has still to deliver
  sent,               \* framing: the lines of the whole stream
  delivered,          \* framing: every message handed to handleMessage so far
  escaped,            \* framing: the exception that has left handleData, "" if none
  junk,               \* framing: for each byte of stream, it is of a line that is not JSON
  shadow,             \* framing: a second client, fed the same chunks without the
                      \* bytes of the lines that are not JSON
  isInitializing,     \* server: the flag of ensureConnection (server.js)
  startupTimer,       \* server: the 1 s timer of startServer is armed
  initializeSent,     \* server: the initialize requests written, [id, proc]: the id and
                      \* the subprocess written to
  initialized         \* server: the subprocesses that have answered an initialize
                      \* request written to them

vars == <<process, isConnected, requestId, pendingRequests, buffer, reconnectAttempts,
          procs, timers, handshakeTimers, reconnectTimers, connects, calls, history,
          stream, sent, delivered, escaped, junk, shadow,
          isInitializing, startupTimer, initializeSent, initialized>>

\* The client and its environment as one record, so that a callback is a
\* function from the state before it to the state after it.  The record of a
\* running callback has, besides the state, what the callback has done so far:
\*   dispatched   the messages handleData has handed to handleMessage
\*   caught       the exceptions handleData has caught
\*   emitted      the 'notification' events emitted
\*   thrown       the error thrown to the caller, "" if none
\*   connected    what connect() did: "" (not called), "noop", "spawned"
\*   settlements  the calls of resolve and reject of sendRequest promises
\*   writes       the lines written to the stdin of subprocesses
\*   outcomes     the settlements of connect() promises
\*   microtasks   the promise reactions queued; they run when the synchronous
\*                code of the callback has returned
AsClient(st) ==
  [process |-> st.process, isConnected |-> st.isConnected, requestId |-> st.requestId,
   pendingRequests |-> st.pendingRequests, buffer |-> st.buffer,
   reconnectAttempts |-> st.reconnectAttempts, procs |-> st.procs, timers |-> st.timers,
   handshakeTimers |-> st.handshakeTimers, reconnectTimers |-> st.reconnectTimers,
   connects |-> st.connects, calls |-> st.calls, history |-> st.history,
   dispatched |-> <<>>, caught |-> <<>>, emitted |-> <<>>, thrown |-> "",
   connected |-> "", settlements |-> <<>>, writes |-> <<>>, outcomes |-> <<>>,
   microtasks |-> <<>>]

\* The state now, as the record a callback starts from.
Self ==
  AsClient([process |-> process, isConnected |-> isConnected, requestId |-> requestId,
            pendingRequests |-> pendingRequests, buffer |-> buffer,
            reconnectAttempts |-> reconnectAttempts, procs |-> procs, timers |-> timers,
            handshakeTimers |-> handshakeTimers, reconnectTimers |-> reconnectTimers,
            connects |-> connects, calls |-> calls, history |-> history])

Commit(c) ==
  /\ process' = c.process
  /\ isConnected' = c.isConnected
  /\ requestId' = c.requestId
  /\ pendingRequests' = c.pendingRequests
  /\ buffer' = c.buffer
  /\ reconnectAttempts' = c.reconnectAttempts
  /\ procs' = c.procs
  /\ timers' = c.timers
  /\ handshakeTimers' = c.handshakeTimers
  /\ reconnectTimers' = c.reconnectTimers
  /\ connects' = c.connects
  /\ calls' = c.calls
  /\ history' = c.history

\* The variables hold the state c.
StateIs(c) ==
  /\ process = c.process
  /\ isConnected = c.isConnected
  /\ requestId = c.requestId
  /\ pendingRequests = c.pendingRequests
  /\ buffer = c.buffer
  /\ reconnectAttempts = c.reconnectAttempts
  /\ procs = c.procs
  /\ timers = c.timers
  /\ handshakeTimers = c.handshakeTimers
  /\ reconnectTimers = c.reconnectTimers
  /\ connects = c.connects
  /\ calls = c.calls
  /\ history = c.history

\* f without the key k
Drop(f, k) == [x \in (DOMAIN f) \ {k} |-> f[x]]

\* ------------------------------------------------------------ JSON.stringify

RECURSIVE Stringify(_)
RECURSIVE StringifyFields(_, _)
KeyByte(name) ==
  CASE name = "id" -> "I" [] name = "result" -> "R" [] name = "error" -> "E"
    [] name = "method" -> "M" [] name = "message" -> "G"

RECURSIVE NumChars(_)
NumChars(n) ==
  LET d == CHOOSE x \in Digits : DigitVal(x) = n % 10
  IN IF n < 10 THEN <<d>> ELSE Append(NumChars(n \div 10), d)

\* JSON.stringify(v) for a value that came out of JSON.parse
Stringify(v) ==
  CASE v.t = "number" -> NumChars(v.n)
    [] v.t = "string" -> <<"q">> \o v.s \o <<"q">>
    [] v.t = "null" -> <<"N">>
    [] v.t = "object" -> <<"{">> \o StringifyFields(v.o, DOMAIN v.o) \o <<"}">>

StringifyFields(f, ks) ==
  IF ks = {} THEN <<>>
  ELSE LET k == CHOOSE x \in ks : TRUE
           rest == StringifyFields(f, ks \ {k})
       IN <<KeyByte(k)>> \o Stringify(f[k]) \o (IF rest = <<>> THEN <<>> ELSE <<",">> \o rest)

\* String(v), the message of new Error(v), for a truthy value
ToStr(v) ==
  CASE v.t = "number" -> NumChars(v.n)
    [] v.t = "string" -> v.s
    [] v.t = "object" -> <<"[object Object]">>

Error(msg) == [t |-> "error", message |-> msg]

\* ----------------------------------------------------- subprocess output

\* What a subprocess may write to its stdout in one chunk: a response with a
\* result, with an error or with neither for some request id, or a
\* notification.
\* {"id":i,"result":1}
ChunkResult(i) == <<"{", "I">> \o NumChars(i) \o <<",", "R", "1", "}", "\n">>
\* {"id":i,"error":{"message":"a"}}
ChunkError(i) ==
  <<"{", "I">> \o NumChars(i) \o <<",", "E", "{", "G", "q", "a", "q", "}", "}", "\n">>
\* {"id":i}
ChunkBare(i) == <<"{", "I">> \o NumChars(i) \o <<"}", "\n">>
\* {"method":"a"}
ChunkNotification == <<"{", "M", "q", "a", "q", "}", "\n">>

Chunks ==
  {ChunkResult(i) : i \in 1..MaxReq} \cup {ChunkError(i) : i \in 1..MaxReq}
    \cup {ChunkBare(i) : i \in 1..MaxReq} \cup {ChunkNotification}

\* the line of a chunk
Line(data) == SubSeq(data, 1, Len(data) - 1)

\* Further lines a subprocess may write: responses with other error payloads,
\* and messages that have a method field beside an id.
\* {"id":i,"error":{"message":""}}
LineErrorEmptyMessage(i) ==
  <<"{", "I">> \o NumChars(i) \o <<",", "E", "{", "G", "q", "q", "}", "}">>
\* {"id":i,"error":{}}
LineErrorNoMessage(i) == <<"{", "I">> \o NumChars(i) \o <<",", "E", "{", "}", "}">>
\* {"id":i,"error":"a"}
LineErrorString(i) == <<"{", "I">> \o NumChars(i) \o <<",", "E", "q", "a", "q", "}">>
\* {"id":i,"error":null,"result":1}
LineErrorNull(i) == <<"{", "I">> \o NumChars(i) \o <<",", "E", "N", ",", "R", "1", "}">>
\* {"id":i,"method":"a"}
LineRequest(i) == <<"{", "I">> \o NumChars(i) \o <<",", "M", "q", "a", "q", "}">>
\* {"id":i,"method":"a","result":1}
LineRequestResult(i) ==
  <<"{", "I">> \o NumChars(i) \o <<",", "M", "q", "a", "q", ",", "R", "1", "}">>
\* {"method":""}
LineEmptyMethod == <<"{", "M", "q", "q", "}">>

OtherLines ==
  {LineEmptyMethod}
    \cup {LineErrorEmptyMessage(i) : i \in 1..MaxReq}
    \cup {LineErrorNoMessage(i) : i \in 1..MaxReq}
    \cup {LineErrorString(i) : i \in 1..MaxReq}
    \cup {LineErrorNull(i) : i \in 1..MaxReq}
    \cup {LineRequest(i) : i \in 0..(MaxReq + 1)}
    \cup {LineRequestResult(i) : i \in 0..(MaxReq + 1)}

\* The lines of the streams of the framing specification.
\* {"id":2,"result":1}
LineResult == <<"{", "I", "2", ",", "R", "1", "}">>
\* {"id":3,"result":"<U+00E9>"}
LineText == <<"{", "I", "3", ",", "R", "q", "C3", "A9", "q", "}">>
\* {"method":"a"}
LineNotification == <<"{", "M", "q", "a", "q", "}">>
\* {"id":23}
LineLate == <<"{", "I", "2", "3", "}">>
\* {"id":2   (cut short)
LineBroken == <<"{", "I", "2">>

WireLines == {LineResult, LineText, LineNotification, LineLate, LineBroken}

\* JSON.parse of these lines, computed once.
ParsedLines ==
  [line \in {Line(data) : data \in Chunks} \cup OtherLines
             \cup {toString(l) : l \in WireLines} |-> ParseText(line)]

\* JSON.parse(line)
JSONParse(line) ==
  IF line \in DOMAIN ParsedLines THEN ParsedLines[line] ELSE ParseText(line)

\* ------------------------------------------------------------ settlement

\* resolve(value) / reject(value) of the k-th sendRequest promise.  The promise
\* takes its first settlement; its reaction, when the handshake of a connect
\* call awaits it, is queued as a microtask.
SettleCall(c, k, outcome, value) ==
  LET call == c.calls[k]
      d == [c EXCEPT !.calls[k].settled = @ + 1,
                     !.settlements = Append(@, [call |-> k, id |-> call.id,
                                                outcome |-> outcome, value |-> value])]
  IN IF call.settled > 0 \/ call.conn = 0 THEN d
     ELSE [d EXCEPT !.microtasks = Append(@, [conn |-> call.conn, outcome |-> outcome,
                                              value |-> value])]

\* resolve() / reject(error) of the promise of the connect call that spawned p
SettleConnect(c, p, outcome) ==
  IF p \in DOMAIN c.connects
    THEN [c EXCEPT !.connects = Drop(@, p),
                   !.outcomes = Append(@, [conn |-> p, outcome |-> outcome])]
    ELSE c

\* JSON.stringify(request): the id, when the message has one, and the method
\* (a letter stands for its name; jsonrpc and params are left out)
RequestText(line) ==
  <<"{">> \o (IF line.id = 0 THEN <<>> ELSE <<"I">> \o NumChars(line.id) \o <<",">>)
          \o <<"M", "q", "a", "q", "}">>

\* the same write without + '\n'
StdinWrite_NoNewline(c, line) ==
  [c EXCEPT !.writes = Append(@, [proc |-> c.process, id |-> line.id, method |-> line.method,
                                  text |-> RequestText(line)])]

\* this.process.stdin.write(JSON.stringify(line) + '\n'): one write, to the
\* subprocess that this.process refers to
StdinWrite(c, line) ==
  [c EXCEPT !.writes = Append(@, [proc |-> c.process, id |-> line.id, method |-> line.method,
                                  text |-> RequestText(line) \o <<"\n">>])]

\* the same continuation with this.isConnected = true in a finally block
HandshakeContinue_Finally(c, m) ==
  SettleConnect([c EXCEPT !.isConnected = TRUE, !.reconnectAttempts = 0],
                m.conn, IF m.outcome = "rejected" THEN "rejected" ELSE "resolved")

\* The rest of initialize() after the await, then the rest of the handshake
\* timer's callback.
HandshakeContinue(c, m) ==
  IF m.outcome = "rejected" THEN SettleConnect(c, m.conn, "rejected")
  ELSE IF c.process = 0
    \* this.process.stdin of null: TypeError, caught by the timer's catch
    THEN SettleConnect(c, m.conn, "rejected")
  ELSE
    LET w == StdinWrite(c, [id |-> 0, method |-> "notifications/initialized"])
    IN IF m.value.t \in {"undefined", "null"}
         \* result.serverInfo of undefined: TypeError
         THEN SettleConnect(w, m.conn, "rejected")
         ELSE SettleConnect([w EXCEPT !.isConnected = TRUE, !.reconnectAttempts = 0,
                                      !.history.handshakes = @ + 1],
                            m.conn, "resolved")

RECURSIVE RunMicrotasks(_)
RunMicrotasks(c) ==
  IF c.microtasks = <<>> THEN c
  ELSE RunMicrotasks(HandshakeContinue([c EXCEPT !.microtasks = Tail(@)], Head(c.microtasks)))

\* A promise that has been settled and that no timer and no entry of
\* pendingRequests refers to can take no part in what follows: it leaves the
\* state.  (A promise that was never settled stays.)
Forget(c) ==
  LET referred == c.timers \cup {c.pendingRequests[i].call : i \in DOMAIN c.pendingRequests}
      keep == {k \in DOMAIN c.calls : k \in referred \/ c.calls[k].settled = 0}
  IN [c EXCEPT !.calls = [k \in keep |-> c.calls[k]]]

\* ------------------------------------------------------------ handleMessage

\* new Error(JSON.stringify(message.error))
ErrorOf_AlwaysStringifies(error) == Error(Stringify(error))

\* new Error(message.error.message || JSON.stringify(message.error))
ErrorOf(error) ==
  IF Truthy(Get(error, "message")) THEN Error(ToStr(Get(error, "message")))
  ELSE Error(Stringify(error))

\* message.id && this.pendingRequests.has(message.id)
Matches(c, message) ==
  LET id == Get(message, "id") IN
  Truthy(id) /\ id.t = "number" /\ id.n \in DOMAIN c.pendingRequests

\* the same function with the test of message.method first
handleMessage_MethodFirst(c, message) ==
  IF Truthy(Get(message, "method")) THEN [c EXCEPT !.emitted = Append(@, message)]
  ELSE IF Matches(c, message) THEN
    LET id == Get(message, "id").n
        k == c.pendingRequests[id].call
        d == [c EXCEPT !.timers = @ \ {k}, !.pendingRequests = Drop(@, id)]
    IN IF Truthy(Get(message, "error"))
         THEN SettleCall(d, k, "rejected", ErrorOf(Get(message, "error")))
         ELSE SettleCall(d, k, "resolved", Get(message, "result"))
  ELSE c

\* the same function with the oldest pending call taken for the one that the
\* response answers
handleMessage_Fifo(c, message) ==
  IF Matches(c, message) THEN
    LET id == CHOOSE i \in DOMAIN c.pendingRequests :
                \A j \in DOMAIN c.pendingRequests : i <= j
        k == c.pendingRequests[id].call
        d == [c EXCEPT !.timers = @ \ {k}, !.pendingRequests = Drop(@, id)]
    IN IF Truthy(Get(message, "error"))
         THEN SettleCall(d, k, "rejected", ErrorOf(Get(message, "error")))
         ELSE SettleCall(d, k, "resolved", Get(message, "result"))
  ELSE IF Truthy(Get(message, "method")) THEN [c EXCEPT !.emitted = Append(@, message)]
  ELSE c

\* the same function without this.pendingRequests.delete(message.id)
handleMessage_KeepsEntry(c, message) ==
  IF Matches(c, message) THEN
    LET id == Get(message, "id").n
        k == c.pendingRequests[id].call
        d == [c EXCEPT !.timers = @ \ {k}]
    IN IF Truthy(Get(message, "error"))
         THEN SettleCall(d, k, "rejected", ErrorOf(Get(message, "error")))
         ELSE SettleCall(d, k, "resolved", Get(message, "result"))
  ELSE IF Truthy(Get(message, "method")) THEN [c EXCEPT !.emitted = Append(@, message)]
  ELSE c

\* handleMessage(message) for a message that is not null
handleMessage(c, message) ==
  IF Matches(c, message) THEN
    LET id == Get(message, "id").n
        k == c.pendingRequests[id].call
        d == [c EXCEPT !.timers = @ \ {k}, !.pendingRequests = Drop(@, id)]
    IN IF Truthy(Get(message, "error"))
         THEN SettleCall(d, k, "rejected", ErrorOf(Get(message, "error")))
         ELSE SettleCall(d, k, "resolved", Get(message, "result"))
  ELSE IF Truthy(Get(message, "method")) THEN [c EXCEPT !.emitted = Append(@, message)]
  ELSE c

\* --------------------------------------------------------------- handleData

\* the same loop body without its try/catch: the exception escapes handleData
CatchParse_Rethrow(c, err) == [c EXCEPT !.thrown = err]

\* catch (error) { console.error(...) } around JSON.parse and handleMessage
CatchParse(c, err) == [c EXCEPT !.caught = Append(@, err)]

\* The body of the for loop for one line.
HandleLine(c, line) ==
  IF ~TrimNonEmpty(line) THEN c
  ELSE LET p == JSONParse(line) IN
    IF ~p.ok THEN CatchParse(c, "SyntaxError")
    ELSE LET d == [c EXCEPT !.dispatched = Append(@, p.val)] IN
      \* message.id of null throws inside the try
      IF p.val.t = "null" THEN CatchParse(d, "TypeError")
      ELSE handleMessage(d, p.val)

RECURSIVE HandleLines(_, _)
\* for (const line of lines): an exception that escapes the body ends the loop
HandleLines(c, lines) ==
  IF lines = <<>> \/ c.thrown # "" THEN c
  ELSE HandleLines(HandleLine(c, Head(lines)), Tail(lines))

\* handleData(data) without this.buffer = lines.pop() || ''
handleData_KeepsBuffer(c, data) ==
  LET text == c.buffer \o toString(data)
      lines == Split(text)
      n == Len(lines)
  IN HandleLines([c EXCEPT !.buffer = text], SubSeq(lines, 1, n - 1))

\* handleData(data), data a Buffer
handleData(c, data) ==
  LET text == c.buffer \o toString(data)
      lines == Split(text)
      n == Len(lines)
  IN HandleLines([c EXCEPT !.buffer = lines[n]], SubSeq(lines, 1, n - 1))

\* -------------------------------------------------------------- sendRequest

NotRunning == "MCP process not running"

\* the same test without !this.process
ProcessDown_KilledOnly(c) == c.process # 0 /\ c.procs[c.process].killed

\* !this.process || this.process.killed
ProcessDown(c) == c.process = 0 \/ c.procs[c.process].killed

\* an id taken from the size of the map instead of the counter
NextRequestId_FromMapSize(c) == Cardinality(DOMAIN c.pendingRequests) + 1

\* const id = ++this.requestId
NextRequestId(c) == c.requestId + 1

\* sendRequest(method, params), awaited by the handshake of connect call conn
\* (conn = 0: by a caller of the client)
sendRequest(c, method, conn) ==
  IF ProcessDown(c) THEN [c EXCEPT !.thrown = NotRunning]
  ELSE
    LET id == NextRequestId(c)
        k == c.history.requests + 1
    IN StdinWrite(
         [c EXCEPT !.requestId = id,
                   !.calls = SetField(@, k, [id |-> id, method |-> method, conn |-> conn,
                                             settled |-> 0]),
                   !.timers = @ \cup {k},
                   !.pendingRequests = SetField(@, id, [call |-> k]),
                   !.history.requests = k,
                   !.history.ids = @ \cup {id}],
         [id |-> id, method |-> method])

TimeoutError(method) == Error(<<"Request timeout: ", method>>)

\* the same callback without the test this.pendingRequests.has(id)
requestTimeout_RejectsAlways(c, k) ==
  SettleCall([c EXCEPT !.timers = @ \ {k}, !.pendingRequests = Drop(@, c.calls[k].id)],
             k, "rejected", TimeoutError(c.calls[k].method))

\* the same callback without this.pendingRequests.delete(id)
requestTimeout_KeepsEntry(c, k) ==
  LET id == c.calls[k].id
      d == [c EXCEPT !.timers = @ \ {k}]
  IN IF id \in DOMAIN d.pendingRequests
       THEN SettleCall(d, k, "rejected", TimeoutError(c.calls[k].method))
       ELSE d

\* The callback of the 60 s timer of call k.
requestTimeout(c, k) ==
  LET id == c.calls[k].id
      d == [c EXCEPT !.timers = @ \ {k}]
  IN IF id \in DOMAIN d.pendingRequests
       THEN SettleCall([d EXCEPT !.pendingRequests = Drop(@, id)],
                       k, "rejected", TimeoutError(c.calls[k].method))
       ELSE d

\* ------------------------------------------------------------------ connect

\* the same function without the test of this.isConnected
connect_AlwaysSpawns(c, by) ==
  LET p == c.history.callerSpawns + c.history.timerSpawns + 1
  IN [c EXCEPT !.procs = SetField(@, p, [killed |-> FALSE]),
               !.process = p,
               !.connects = SetField(@, p, [by |-> by]),
               !.handshakeTimers = @ \cup {p},
               !.connected = "spawned",
               !.history.callerSpawns = IF by # "timer" THEN @ + 1 ELSE @,
               !.history.timerSpawns = IF by = "timer" THEN @ + 1 ELSE @]

\* the same function with this.reconnectAttempts = 0 at every spawn
connect_ResetsAttempts(c, by) ==
  IF c.isConnected THEN [c EXCEPT !.connected = "noop"]
  ELSE
    LET p == c.history.callerSpawns + c.history.timerSpawns + 1
    IN [c EXCEPT !.procs = SetField(@, p, [killed |-> FALSE]),
                 !.process = p,
                 !.connects = SetField(@, p, [by |-> by]),
                 !.handshakeTimers = @ \cup {p},
                 !.connected = "spawned",
                 !.reconnectAttempts = 0,
                 !.history.callerSpawns = IF by # "timer" THEN @ + 1 ELSE @,
                 !.history.timerSpawns = IF by = "timer" THEN @ + 1 ELSE @]

\* connect() called by a caller of the client ("caller"; in the server the
\* startup task, "startup", or ensureConnection, "middleware") or by the
\* reconnect timer ("timer")
connect(c, by) ==
  IF c.isConnected THEN [c EXCEPT !.connected = "noop"]
  ELSE
    LET p == c.history.callerSpawns + c.history.timerSpawns + 1
    IN [c EXCEPT !.procs = SetField(@, p, [killed |-> FALSE]),
                 !.process = p,
                 !.connects = SetField(@, p, [by |-> by]),
                 !.handshakeTimers = @ \cup {p},
                 !.connected = "spawned",
                 !.history.callerSpawns = IF by # "timer" THEN @ + 1 ELSE @,
                 !.history.timerSpawns = IF by = "timer" THEN @ + 1 ELSE @]

\* The callback of the 3 s timer of the connect call that spawned p, up to the
\* await inside initialize(): sendRequest either throws, and the catch rejects
\* the connect, or it leaves the call pending.
handshakeTimer(c, p) ==
  LET d == sendRequest([c EXCEPT !.handshakeTimers = @ \ {p}], "initialize", p)
  IN IF d.thrown # "" THEN SettleConnect([d EXCEPT !.thrown = ""], p, "rejected")
     ELSE d

\* the same listener without this.isConnected = false
onClose_KeepsConnected(c) ==
  LET d == [c EXCEPT !.process = 0]
  IN IF d.reconnectAttempts < maxReconnectAttempts
       THEN [d EXCEPT !.reconnectAttempts = @ + 1, !.reconnectTimers = @ + 1]
       ELSE d

\* the same listener without the test of reconnectAttempts
onClose_AlwaysReconnects(c) ==
  [c EXCEPT !.isConnected = FALSE, !.process = 0,
            !.reconnectAttempts = @ + 1, !.reconnectTimers = @ + 1]

\* The 'close' listener that connect() registered on a subprocess.
onClose(c) ==
  LET d == [c EXCEPT !.isConnected = FALSE, !.process = 0]
  IN IF d.reconnectAttempts < maxReconnectAttempts
       THEN [d EXCEPT !.reconnectAttempts = @ + 1, !.reconnectTimers = @ + 1]
       ELSE d

\* disconnect() without this.pendingRequests.clear()
disconnect_KeepsPending(c) ==
  LET d == IF c.process # 0
             THEN [c EXCEPT !.procs[c.process].killed = TRUE, !.process = 0]
             ELSE c
  IN [d EXCEPT !.isConnected = FALSE]

\* disconnect()
disconnect(c) ==
  LET d == IF c.process # 0
             THEN [c EXCEPT !.procs[c.process].killed = TRUE, !.process = 0]
             ELSE c
  IN [d EXCEPT !.isConnected = FALSE, !.pendingRequests = EmptyFields]

\* ------------------------------------------------------ framing: the stream

WellFormed(line) == ParseText(toString(line)).ok

RECURSIVE StreamOf(_)
\* the bytes of the lines, each followed by a newline
StreamOf(ls) == IF ls = <<>> THEN <<>> ELSE Head(ls) \o <<"\n">> \o StreamOf(Tail(ls))

RECURSIVE JunkMask(_)
\* for every byte of StreamOf(ls): it belongs to a line that is not JSON
JunkMask(ls) ==
  IF ls = <<>> THEN <<>>
  ELSE [i \in 1..(Len(Head(ls)) + 1) |-> ~WellFormed(Head(ls))] \o JunkMask(Tail(ls))

RECURSIVE Keep(_, _, _, _)
\* bytes from..to of s whose mask is FALSE
Keep(s, mask, from, to) ==
  IF from > to THEN <<>>
  ELSE (IF mask[from] THEN <<>> ELSE <<s[from]>>) \o Keep(s, mask, from + 1, to)

\* The client when the stream starts: connected to subprocess 1, handshake
\* done with request 1, requests 2 and 3 waiting for their responses.
FramingStart ==
  AsClient(
    [process |-> 1, isConnected |-> TRUE, requestId |-> 3,
     pendingRequests |-> (2 :> [call |-> 2] @@ 3 :> [call |-> 3]),
     buffer |-> <<>>, reconnectAttempts |-> 0,
     procs |-> (1 :> [killed |-> FALSE]),
     timers |-> {2, 3}, handshakeTimers |-> {}, reconnectTimers |-> 0,
     connects |-> EmptyFields,
     calls |-> (2 :> [id |-> 2, method |-> "tools/list", conn |-> 0, settled |-> 0]
                @@ 3 :> [id |-> 3, method |-> "tools/call", conn |-> 0, settled |-> 0]),
     history |-> [callerSpawns |-> 1, timerSpawns |-> 0, requests |-> 3, handshakes |-> 1,
                  ids |-> {1, 2, 3}]])

RECURSIVE LineSeqs(_)
\* the sequences of 1..n wire lines
LineSeqs(n) ==
  IF n = 0 THEN {}
  ELSE {<<l>> : l \in WireLines}
       \cup LineSeqs(n - 1)
       \cup {Append(ls, l) : ls \in LineSeqs(n - 1), l \in WireLines}

InitFraming ==
  /\ StateIs(FramingStart)
  /\ sent \in LineSeqs(MaxLines)
  /\ stream = StreamOf(sent)
  /\ junk = JunkMask(sent)
  /\ delivered = <<>>
  /\ escaped = ""
  /\ shadow = FramingStart
  /\ isInitializing = FALSE
  /\ startupTimer = FALSE
  /\ initializeSent = {}
  /\ initialized = {}

\* The subprocess's stdout delivers the next n bytes of the stream: the 'data'
\* listener calls handleData with them.  The shadow client gets the same bytes
\* without those of the lines that are not JSON.
FeedChunk ==
  /\ stream # <<>>
  /\ escaped = ""
  /\ \E n \in 1..Len(stream) :
       \E c \in {Forget(RunMicrotasks(handleData(Self, SubSeq(stream, 1, n))))},
          sh \in {Forget(RunMicrotasks(
                    handleData([AsClient(shadow) EXCEPT !.dispatched = shadow.dispatched],
                               Keep(stream, junk, 1, n))))} :
          /\ Commit(c)
          /\ stream' = SubSeq(stream, n + 1, Len(stream))
          /\ junk' = SubSeq(junk, n + 1, Len(junk))
          /\ delivered' = delivered \o c.dispatched
          /\ escaped' = c.thrown
          /\ shadow' = sh
          /\ UNCHANGED <<sent, isInitializing, startupTimer, initializeSent, initialized>>

NextFraming == FeedChunk

SpecFraming == InitFraming /\ [][NextFraming]_vars

\* ------------------------------------------------------ framing: the claims

AllWellFormed(ls) == \A i \in 1..Len(ls) : WellFormed(ls[i])

\* what handleData hands to handleMessage when it gets the lines as one chunk
WholeDelivery(ls) == handleData(FramingStart, StreamOf(ls)).dispatched

\* C1: when a stream of N newline-terminated JSON lines has been delivered,
\* in whatever chunks, handleMessage has been called N times, with the messages
\* it gets when the stream arrives as one chunk, in that order.
C1_FramingIndependentOfChunking ==
  (stream = <<>> /\ AllWellFormed(sent)) =>
     /\ Len(delivered) = Len(sent)
     /\ delivered = WholeDelivery(sent)

Ascii(ls) == \A i \in 1..Len(ls) : \A j \in 1..Len(ls[i]) : ls[i][j] \notin {"C3", "A9"}

\* The part of C1 that the code keeps: streams of one-byte characters.
FramingOfAsciiStreams ==
  (stream = <<>> /\ AllWellFormed(sent) /\ Ascii(sent)) =>
     /\ Len(delivered) = Len(sent)
     /\ delivered = WholeDelivery(sent)

\* C2: a line that is not JSON is dropped on its own.  Whatever has been
\* delivered so far, handleMessage has been called with the messages, and the
\* calls are in the state, that the same chunks without the bytes of those lines
\* give, and no exception has left handleData; at the end of the stream there is
\* one call of handleMessage per JSON line.
C2_MalformedLineDroppedAlone ==
  /\ escaped = ""
  /\ delivered = shadow.dispatched
  /\ pendingRequests = shadow.pendingRequests
  /\ calls = shadow.calls
  /\ timers = shadow.timers
  /\ stream = <<>> =>
       Len(delivered) = Cardinality({i \in 1..Len(sent) : WellFormed(sent[i])})

C2_Witness ==
  /\ stream = <<>>
  /\ Len(sent) = 3
  /\ WellFormed(sent[1]) /\ ~WellFormed(sent[2]) /\ WellFormed(sent[3])
  /\ Len(delivered) = 2

\* ------------------------------------------------------ the client's events

\* The method of the requests that callers send: callTool() and its wrappers
\* send tools/call (listTools() differs in the method name only).
Methods == {"tools/call"}

\* The client after new MCPClient(), nothing received yet, and isInitializing
\* as server.js declares it.
Constructed ==
  /\ process = 0
  /\ isConnected = FALSE
  /\ requestId = 0
  /\ pendingRequests = EmptyFields
  /\ buffer = <<>>
  /\ reconnectAttempts = 0
  /\ procs = EmptyFields
  /\ timers = {}
  /\ handshakeTimers = {}
  /\ reconnectTimers = 0
  /\ connects = EmptyFields
  /\ calls = EmptyFields
  /\ history = [callerSpawns |-> 0, timerSpawns |-> 0, requests |-> 0, handshakes |-> 0,
                ids |-> {}]
  /\ stream = <<>>
  /\ sent = <<>>
  /\ delivered = <<>>
  /\ escaped = ""
  /\ junk = <<>>
  /\ shadow = <<>>
  /\ isInitializing = FALSE
  /\ initializeSent = {}
  /\ initialized = {}

\* The client on its own: no server, no startup timer.
Init == Constructed /\ startupTimer = FALSE

\* One callback of the event loop: its synchronous code, then the microtasks.
Step(c) ==
  \E d \in {Forget(RunMicrotasks(c))} :
    /\ Commit(d)
    /\ UNCHANGED <<stream, sent, delivered, escaped, junk, shadow>>
    /\ UNCHANGED <<isInitializing, startupTimer, initializeSent, initialized>>

\* Timers of the same delay fire in the order in which they were set.
Oldest(S) == {x \in S : \A y \in S : x <= y}

Spawned == history.callerSpawns + history.timerSpawns

\* A caller (the server's startup task, its middleware) calls connect().
Connect ==
  /\ ~isConnected => Spawned < MaxProcs
  /\ Step(connect(Self, "caller"))

\* A reconnect timer fires: this.connect().catch(console.error)
FireReconnect ==
  /\ reconnectTimers > 0
  /\ Step(connect([Self EXCEPT !.reconnectTimers = @ - 1], "timer"))

ReconnectTimer ==
  /\ ~isConnected => Spawned < MaxProcs
  /\ FireReconnect

\* The handshake timer of a connect call fires.
HandshakeTimer ==
  \E p \in Oldest(handshakeTimers) :
    /\ history.requests < MaxReq
    /\ Step(handshakeTimer(Self, p))

\* A caller calls listTools() or callTool().
SendRequest ==
  \E method \in Methods :
    /\ history.requests < MaxReq
    /\ Step(sendRequest(Self, method, 0))

\* The 60 s timer of a call fires.
RequestTimeout ==
  \E k \in Oldest(timers) : Step(requestTimeout(Self, k))

\* A subprocess whose stdout is still open writes a chunk.
StdoutData ==
  \E data \in Chunks :
    /\ DOMAIN procs # {}
    /\ Step(handleData(Self, data))

\* A subprocess has exited and its streams have ended: 'close' is emitted.
Close ==
  \E p \in DOMAIN procs : Step(onClose([Self EXCEPT !.procs = Drop(@, p)]))

\* A caller calls disconnect().
Disconnect == Step(disconnect(Self))

Next ==
  \/ Connect
  \/ ReconnectTimer
  \/ HandshakeTimer
  \/ SendRequest
  \/ RequestTimeout
  \/ StdoutData
  \/ Close
  \/ Disconnect

Spec == Init /\ [][Next]_vars

\* ------------------------------------------------- the client left to itself

\* The server connects once; after that only the reconnect timer calls
\* connect().  The number of subprocesses is bounded by the client alone.
ConnectOnce ==
  /\ history.callerSpawns = 0
  /\ Step(connect(Self, "caller"))

NextRetry ==
  \/ ConnectOnce
  \/ FireReconnect
  \/ HandshakeTimer
  \/ SendRequest
  \/ RequestTimeout
  \/ StdoutData
  \/ Close
  \/ Disconnect

SpecRetry == Init /\ [][NextRetry]_vars

\* ------------------------------------------------- the server (server.js)

\* The server is the only caller of the client: the background task of
\* startServer calls connect() once, and ensureConnection stands before every
\* route that uses the client.  (Its signal handlers call disconnect() and end
\* the process: nothing follows them.)

InitServer == Constructed /\ startupTimer = TRUE

\* The connect() promises awaited by ensureConnection that settle in the
\* callback that ends in d.
Released(d) ==
  {n \in 1..Len(d.outcomes) : connects[d.outcomes[n].conn].by = "middleware"}

\* The route behind ensureConnection: its call of listTools() or callTool();
\* the route catches what the call throws.
Route(c, method) == [sendRequest(c, method, 0) EXCEPT !.thrown = ""]

\* ensureConnection after 'await mcpClient.connect()': next() runs the route
\* when the promise has resolved, the catch answers 503 when it has rejected.
ensureConnectionContinue(d, method) ==
  IF \E n \in Released(d) : d.outcomes[n].outcome = "resolved"
    THEN Route(d, method)
    ELSE d

\* The initialize requests written in the callback that ends in d, each with
\* the subprocess it was written to.
InitializeWrites(d) ==
  {[id |-> d.writes[n].id, proc |-> d.writes[n].proc] :
     n \in {m \in 1..Len(d.writes) : d.writes[m].method = "initialize"}}

\* The subprocesses whose answer to an initialize request arrives in the
\* callback that ends in d.
Answered(d) ==
  {w.proc : w \in {x \in initializeSent \cup InitializeWrites(d) :
                     \E n \in 1..Len(d.settlements) :
                       /\ d.settlements[n].outcome = "resolved"
                       /\ d.settlements[n].id = x.id}}

\* One callback of the event loop in the server: the synchronous code, the
\* microtasks of the client, then the rest of ensureConnection when the
\* connect() it awaits has settled.  flag is isInitializing and armed is
\* startupTimer as the synchronous code leaves them.
ServerStep(c, flag, armed) ==
  \E method \in Methods :
    \E e \in {ensureConnectionContinue(RunMicrotasks(c), method)} :
      /\ e.history.requests <= MaxReq
      /\ Commit(Forget(e))
      /\ isInitializing' = IF Released(e) # {} THEN FALSE ELSE flag
      /\ startupTimer' = armed
      /\ initializeSent' = initializeSent \cup InitializeWrites(e)
      /\ initialized' = initialized \cup Answered(e)
      /\ UNCHANGED <<stream, sent, delivered, escaped, junk, shadow>>

\* The background task of startServer: await mcpClient.connect() in a try.
StartupConnect ==
  /\ startupTimer
  /\ ~isConnected => Spawned < MaxProcs
  /\ ServerStep(connect(Self, "startup"), isInitializing, FALSE)

\* A request for a route behind ensureConnection arrives: it passes to the
\* route when the client is connected, it is answered 503 when isInitializing
\* is set, and otherwise ensureConnection sets the flag and calls connect().
ensureConnection ==
  \E method \in Methods :
    \/ /\ isConnected
       /\ history.requests < MaxReq
       /\ ServerStep(Route(Self, method), isInitializing, startupTimer)
    \/ /\ ~isConnected
       /\ isInitializing
       /\ UNCHANGED vars
    \/ /\ ~isConnected
       /\ ~isInitializing
       /\ Spawned < MaxProcs
       /\ ServerStep(connect(Self, "middleware"), TRUE, startupTimer)

\* The client's own callbacks, in the server.  The startup timer (1 s, set when
\* the server starts) fires before every timer of the client, which are set
\* later and for 2 s or more.
ServerReconnectTimer ==
  /\ ~startupTimer
  /\ reconnectTimers > 0
  /\ ~isConnected => Spawned < MaxProcs
  /\ ServerStep(connect([Self EXCEPT !.reconnectTimers = @ - 1], "timer"),
                isInitializing, startupTimer)

ServerHandshakeTimer ==
  \E p \in Oldest(handshakeTimers) :
    /\ ~startupTimer
    /\ history.requests < MaxReq
    /\ ServerStep(handshakeTimer(Self, p), isInitializing, startupTimer)

ServerRequestTimeout ==
  \E k \in Oldest(timers) :
    /\ ~startupTimer
    /\ ServerStep(requestTimeout(Self, k), isInitializing, startupTimer)

ServerStdoutData ==
  \E data \in Chunks :
    /\ DOMAIN procs # {}
    /\ ServerStep(handleData(Self, data), isInitializing, startupTimer)

ServerClose ==
  \E p \in DOMAIN procs :
    ServerStep(onClose([Self EXCEPT !.procs = Drop(@, p)]), isInitializing, startupTimer)

NextServer ==
  \/ StartupConnect
  \/ ensureConnection
  \/ ServerReconnectTimer
  \/ ServerHandshakeTimer
  \/ ServerRequestTimeout
  \/ ServerStdoutData
  \/ ServerClose

SpecServer == InitServer /\ [][NextServer]_vars

\* ------------------------------------------------------ the client: the claims

\* The state that a callback leaves when its microtasks have run.
After(c) == AsClient(Forget(RunMicrotasks(c)))

\* the message of a chunk of one line
MessageOf(data) == JSONParse(Line(data)).val

\* The callbacks that can write a request now: sendRequest called by a caller,
\* and by the handshake timer of a connect call.
Sends ==
  {sendRequest(Self, method, 0) : method \in Methods}
    \cup {handshakeTimer(Self, p) : p \in handshakeTimers}

\* C3: request ids are never reused.  In every state that connects, exits,
\* reconnects, disconnects and requests lead to, no id assigned so far is above
\* the counter, the calls in flight have different ids, and a request written
\* now carries an id above every id assigned before.
C3_RequestIdsNeverReused ==
  /\ \A i \in history.ids : i <= requestId
  /\ \A j, k \in DOMAIN calls : calls[j].id = calls[k].id => j = k
  /\ \A d \in Sends : \A n \in 1..Len(d.writes) : \A i \in history.ids : d.writes[n].id > i

\* The second request of the client goes, with id 2, to the subprocess that the
\* reconnect timer spawned after the first subprocess had exited.
C3_Witness ==
  /\ history.timerSpawns = 1
  /\ process = 2
  /\ requestId = 2
  /\ history.ids = {1, 2}
  /\ DOMAIN pendingRequests = {1, 2}

\* C4: response correlation is exact.  In every state, for every message: when
\* its id is the id of a pending call, handleMessage settles that call once, in
\* the way the message says, deletes its entry and leaves every other call and
\* entry as it was; when its id is the id of no pending call and it has no
\* method, handleMessage changes nothing, settles nothing, emits nothing and
\* throws nothing.
C4_ResponseCorrelationExact ==
  \A data \in Chunks :
    LET message == MessageOf(data)
        id == Get(message, "id")
        d == handleMessage(Self, message)
    IN IF id.t = "number" /\ id.n \in DOMAIN pendingRequests
         THEN LET k == pendingRequests[id.n].call IN
              /\ calls[k].id = id.n /\ calls[k].settled = 0
              /\ Len(d.settlements) = 1
              /\ d.settlements[1].call = k
              /\ d.settlements[1].outcome =
                   (IF Truthy(Get(message, "error")) THEN "rejected" ELSE "resolved")
              /\ ~Truthy(Get(message, "error")) =>
                   d.settlements[1].value = Get(message, "result")
              /\ d.pendingRequests = Drop(pendingRequests, id.n)
              /\ d.calls = [calls EXCEPT ![k].settled = 1]
              /\ d.emitted = <<>> /\ d.thrown = ""
         ELSE Get(message, "method").t = "undefined" => d = Self

\* Calls 1 and 2 are pending and the response to call 1 arrives: call 1 is
\* settled, call 2 stays pending.
C4_Witness ==
  /\ DOMAIN pendingRequests = {1, 2}
  /\ LET d == handleMessage(Self, MessageOf(ChunkResult(1)))
     IN /\ DOMAIN d.pendingRequests = {2}
        /\ Len(d.settlements) = 1
        /\ d.calls[pendingRequests[2].call] = calls[pendingRequests[2].call]

\* C5: when the timer of a pending call fires, the call is rejected with the
\* timeout error that names its method and its entry is deleted; a response
\* with its id that arrives after that settles nothing and changes no state.
C5_TimeoutThenLateResponseIgnored ==
  \A k \in timers :
    LET id == calls[k].id IN
    id \in DOMAIN pendingRequests =>
      LET d == requestTimeout(Self, k)
          after == After(d)
      IN /\ pendingRequests[id].call = k
         /\ d.settlements = <<[call |-> k, id |-> id, outcome |-> "rejected",
                               value |-> TimeoutError(calls[k].method)]>>
         /\ id \notin DOMAIN d.pendingRequests
         /\ \A data \in {ChunkResult(id), ChunkError(id), ChunkBare(id)} :
              LET e == handleData(after, data)
              IN /\ e.settlements = <<>> /\ e.emitted = <<>> /\ e.thrown = ""
                 /\ After(e) = after

\* Call 2, a tools/call request, is pending with its timer armed while call 1
\* is pending too: the timer of call 2 fires and only call 2 is rejected.
C5_Witness ==
  /\ DOMAIN pendingRequests = {1, 2}
  /\ \E k \in timers :
       /\ calls[k].id = 2 /\ calls[k].method = "tools/call"
       /\ LET d == requestTimeout(Self, k)
          IN /\ DOMAIN d.pendingRequests = {1}
             /\ d.settlements[1].value = TimeoutError("tools/call")

\* C6: sendRequest called while this.process is null or killed throws 'MCP
\* process not running' and does nothing else: no write, no entry in
\* pendingRequests, no new id, no subprocess, no timer.  The states are the
\* reachable ones and, for each with a subprocess attached, the same state with
\* that subprocess marked killed.
C6_SendRequestNeedsProcess ==
  \A c \in {Self} \cup {[Self EXCEPT !.procs[process].killed = TRUE] :
                          x \in IF process # 0 THEN {1} ELSE {}} :
    (c.process = 0 \/ c.procs[c.process].killed) =>
       \A method \in Methods \cup {"initialize"} :
          sendRequest(c, method, 0) = [c EXCEPT !.thrown = NotRunning]

\* The subprocess has exited while call 1 was pending: a request made now is
\* refused and call 1 is still the only one pending.
C6_Witness ==
  /\ process = 0
  /\ requestId = 1
  /\ DOMAIN pendingRequests = {1}
  /\ sendRequest(Self, "tools/call", 0).thrown = NotRunning

\* The callbacks that can run now, the stdout listener apart.
OtherCallbacks ==
  {connect(Self, "caller"), disconnect(Self)}
    \cup {connect([Self EXCEPT !.reconnectTimers = @ - 1], "timer") :
            x \in IF reconnectTimers > 0 THEN {1} ELSE {}}
    \cup {handshakeTimer(Self, p) : p \in handshakeTimers}
    \cup {sendRequest(Self, method, 0) : method \in Methods}
    \cup {requestTimeout(Self, k) : k \in timers}
    \cup {onClose([Self EXCEPT !.procs = Drop(@, p)]) : p \in DOMAIN procs}

\* In the callback that ends in d, the initialize request of connect call conn
\* has been resolved with a result.
InitializeResultReceived(d, conn) ==
  \E n \in 1..Len(d.settlements) :
    LET s == d.settlements[n] IN
    /\ s.outcome = "resolved"
    /\ s.value.t \notin {"undefined", "null"}
    /\ calls[s.call].method = "initialize"
    /\ calls[s.call].conn = conn

\* C7: isConnected goes from false to true only in the callback in which the
\* result of an initialize request arrives, a connect() promise that waits for
\* a handshake resolves only in such a callback, for its own initialize request,
\* and isConnected is true when it resolves; connect() resolves without a
\* handshake only when isConnected is true already.
C7_ConnectedOnlyAfterInitializeResult ==
  /\ \A c \in OtherCallbacks :
       LET d == RunMicrotasks(c) IN
       /\ d.isConnected => isConnected
       /\ d.connected = "noop" => isConnected
       /\ \A n \in 1..Len(d.outcomes) : d.outcomes[n].outcome = "rejected"
  /\ \A data \in Chunks :
       LET d == RunMicrotasks(handleData(Self, data)) IN
       /\ (~isConnected /\ d.isConnected) =>
            \E conn \in DOMAIN connects : InitializeResultReceived(d, conn)
       /\ \A n \in 1..Len(d.outcomes) :
            d.outcomes[n].outcome = "resolved" =>
              d.isConnected /\ InitializeResultReceived(d, d.outcomes[n].conn)

\* The client is not connected, the initialize request of a connect call is
\* pending, and its result arrives: isConnected becomes true and the connect
\* promise resolves.
C7_Witness ==
  /\ ~isConnected
  /\ \E data \in Chunks :
       LET d == RunMicrotasks(handleData(Self, data)) IN
       /\ d.isConnected
       /\ d.outcomes = <<[conn |-> process, outcome |-> "resolved"]>>

\* C8: the close listener sets isConnected to false and process to null; below
\* maxReconnectAttempts it arms one reconnect timer and adds one to
\* reconnectAttempts, otherwise it arms none and leaves the counter; it does
\* nothing else.
C8_CloseSchedulesOneReconnectBelowCap ==
  \A p \in DOMAIN procs :
    LET c == [Self EXCEPT !.procs = Drop(@, p)]
        d == onClose(c)
    IN /\ ~d.isConnected
       /\ d.process = 0
       /\ IF reconnectAttempts < maxReconnectAttempts
            THEN /\ d.reconnectTimers = reconnectTimers + 1
                 /\ d.reconnectAttempts = reconnectAttempts + 1
            ELSE /\ d.reconnectTimers = reconnectTimers
                 /\ d.reconnectAttempts = reconnectAttempts
       /\ d = [c EXCEPT !.isConnected = FALSE, !.process = 0,
                        !.reconnectTimers = d.reconnectTimers,
                        !.reconnectAttempts = d.reconnectAttempts]

\* Three reconnects have been scheduled and the subprocess of the third is
\* running: its exit schedules nothing.
C8_Witness ==
  /\ reconnectAttempts = maxReconnectAttempts
  /\ process # 0
  /\ process \in DOMAIN procs
  /\ onClose([Self EXCEPT !.procs = Drop(@, process)]).reconnectTimers = 0

\* C9: as long as no handshake has succeeded and the only caller of connect()
\* has been the first one, the reconnect timers that have spawned a subprocess
\* and those still armed are at most maxReconnectAttempts together; when that
\* many have spawned and the last subprocess has exited, no timer is armed and
\* no callback that can still run spawns a subprocess.
C9_AutoReconnectBounded ==
  (history.handshakes = 0 /\ history.callerSpawns <= 1) =>
     /\ history.timerSpawns + reconnectTimers <= maxReconnectAttempts
     /\ (history.timerSpawns = maxReconnectAttempts /\ DOMAIN procs = {}) =>
          /\ reconnectTimers = 0
          /\ \A c \in OtherCallbacks \ {connect(Self, "caller")} : c.connected # "spawned"

\* The first subprocess and the three that the reconnect timer spawned have
\* exited without a handshake: nothing is armed any more.
C9_Witness ==
  /\ history.handshakes = 0
  /\ history.callerSpawns = 1
  /\ history.timerSpawns = maxReconnectAttempts
  /\ DOMAIN procs = {}
  /\ reconnectTimers = 0
  /\ handshakeTimers = {}

\* C10: every promise that sendRequest has returned settles exactly once, by a
\* response or by its timer.  A call is settled at most once, and a call whose
\* timer has fired or has been cleared is settled: nothing else holds its
\* resolve and reject.
C10_EveryCallSettlesOnce ==
  \A k \in DOMAIN calls :
    /\ calls[k].settled <= 1
    /\ k \notin timers => calls[k].settled = 1

\* The state that a callback leaves when its microtasks have run, with the
\* promises it has settled still in it.
Settled(c) == AsClient(RunMicrotasks(c))

\* The callbacks that look for call k in pendingRequests: its timer, and the
\* stdout listener with a response (a result, an error, neither) to its id.
Settlers(c, k) ==
  {requestTimeout(c, k)}
    \cup {handleData(c, data) :
            data \in {ChunkResult(c.calls[k].id), ChunkError(c.calls[k].id),
                      ChunkBare(c.calls[k].id)}}

\* C11: a call is never settled twice.  For a pending call, whichever of its
\* timer and the responses with its id comes first settles it once, deletes its
\* entry and disarms its timer; whichever of them comes after that (the timer
\* too, were it to fire all the same) settles nothing and changes no state.
C11_NeverSettledTwice ==
  /\ \A k \in DOMAIN calls : calls[k].settled <= 1
  /\ \A k \in timers :
       calls[k].id \in DOMAIN pendingRequests =>
         \A first \in Settlers(Self, k) :
           LET a == Settled(first) IN
           /\ Len(first.settlements) = 1
           /\ a.calls[k].settled = 1
           /\ k \notin a.timers
           /\ calls[k].id \notin DOMAIN a.pendingRequests
           /\ \A second \in Settlers(a, k) :
                /\ second.settlements = <<>>
                /\ Settled(second) = a

\* Call 2 is pending beside call 1; its timer fires, then its response
\* arrives: the response settles nothing and call 1 is still pending.
C11_Witness ==
  /\ DOMAIN pendingRequests = {1, 2}
  /\ \E k \in timers :
       /\ calls[k].id = 2
       /\ LET a == Settled(requestTimeout(Self, k))
              b == handleData(a, ChunkResult(2))
          IN /\ a.calls[k].settled = 1
             /\ Len(b.dispatched) = 1
             /\ b.settlements = <<>>
             /\ DOMAIN b.pendingRequests = {1}

\* The calls of connect() that can happen now: by a caller, and by a reconnect
\* timer that fires.
ConnectCalls ==
  {[by |-> "caller", before |-> Self]}
    \cup {[by |-> "timer", before |-> [Self EXCEPT !.reconnectTimers = @ - 1]] :
            x \in IF reconnectTimers > 0 THEN {1} ELSE {}}

\* C12: connect() called while isConnected is true returns at once: no
\* subprocess, no write, no listener, no timer, no promise left pending, and
\* every field of the client as it was.
C12_ConnectWhenConnectedIsNoop ==
  isConnected =>
    \A call \in ConnectCalls :
      LET d == connect(call.before, call.by)
      IN /\ d = [call.before EXCEPT !.connected = "noop"]
         /\ Settled(d) = AsClient(call.before)

\* The client is connected to its second subprocess with call 2 pending, and
\* the reconnect timer armed by the exit of the first one fires: nothing
\* changes.
C12_Witness ==
  /\ isConnected
  /\ process = 2
  /\ reconnectTimers = 1
  /\ DOMAIN pendingRequests = {2}
  /\ connect([Self EXCEPT !.reconnectTimers = 0], "timer").procs = procs

\* C13: a re-entrant connect() spawns no second subprocess.  While the
\* connect() that spawned subprocess p has not settled and p is running and has
\* not been killed, p is the last subprocess spawned and this.process is p.
C13_ReentrantConnectSpawnsNoSecond ==
  \A p \in DOMAIN connects \cap DOMAIN procs :
    ~procs[p].killed => (Spawned = p /\ process = p)

\* The callbacks that can fail a handshake now: the timer of a pending
\* initialize request, and the stdout listener with an error response to it.
HandshakeFailures ==
  UNION {{[conn |-> calls[k].conn, callback |-> requestTimeout(Self, k)],
          [conn |-> calls[k].conn, callback |-> handleData(Self, ChunkError(calls[k].id))]} :
           k \in {j \in timers : calls[j].conn # 0 /\ calls[j].id \in DOMAIN pendingRequests}}

\* C14: when the initialize request of a connect() times out or gets an error
\* response, the promise of that connect() rejects, and isConnected is false
\* when it does.
C14_HandshakeFailureRejectsDisconnected ==
  \A f \in HandshakeFailures :
    LET d == RunMicrotasks(f.callback)
    IN /\ d.outcomes = <<[conn |-> f.conn, outcome |-> "rejected"]>>
       /\ ~d.isConnected

\* The part of C14 that the code keeps: the promise of that connect() rejects,
\* and the failure leaves isConnected as it was.
HandshakeFailureRejects ==
  \A f \in HandshakeFailures :
    LET d == RunMicrotasks(f.callback)
    IN /\ d.outcomes = <<[conn |-> f.conn, outcome |-> "rejected"]>>
       /\ d.isConnected = isConnected

\* The responses to request i.
ResponseLines(i) ==
  {Line(ChunkResult(i)), Line(ChunkError(i)), Line(ChunkBare(i)),
   LineErrorEmptyMessage(i), LineErrorNoMessage(i), LineErrorString(i), LineErrorNull(i)}

\* What handleData does with the call of id i when it gets the line.
SettlementBy(line, i) ==
  LET d == handleData(Self, line \o <<"\n">>)
  IN IF Len(d.settlements) = 1 /\ d.settlements[1].call = pendingRequests[i].call
       THEN [outcome |-> d.settlements[1].outcome, value |-> d.settlements[1].value]
       ELSE [outcome |-> "none", value |-> Undefined]

\* the error payload has a message field
HasMessage(error) == error.t = "object" /\ "message" \in DOMAIN error.o

\* C15 as stated: a matching response that has an error field rejects the call
\* with the error's message field, or with the stringified payload when the
\* payload has no message field; one without an error field resolves the call
\* with its result field.
C15_ErrorFieldRejectsWithMessage ==
  \A i \in DOMAIN pendingRequests : \A line \in ResponseLines(i) :
    LET message == JSONParse(toString(line)).val
    IN SettlementBy(line, i) =
         IF "error" \in DOMAIN message.o
           THEN [outcome |-> "rejected",
                 value |-> Error(IF HasMessage(message.o.error)
                                   THEN ToStr(message.o.error.o.message)
                                   ELSE Stringify(message.o.error))]
           ELSE [outcome |-> "resolved", value |-> Get(message, "result")]

\* C15, amended: a matching response rejects the call when its error field is
\* neither null nor absent, with the message field of the error when that is a
\* non-empty string and with the stringified payload otherwise; any other
\* matching response resolves the call with its result field (undefined when
\* it has none).
C15_TruthyErrorRejectsWithMessage ==
  \A i \in DOMAIN pendingRequests :
    /\ SettlementBy(Line(ChunkError(i)), i) =
         [outcome |-> "rejected", value |-> Error(<<"a">>)]
    /\ SettlementBy(LineErrorEmptyMessage(i), i) =
         [outcome |-> "rejected", value |-> Error(<<"{", "G", "q", "q", "}">>)]
    /\ SettlementBy(LineErrorNoMessage(i), i) =
         [outcome |-> "rejected", value |-> Error(<<"{", "}">>)]
    /\ SettlementBy(LineErrorString(i), i) =
         [outcome |-> "rejected", value |-> Error(<<"q", "a", "q">>)]
    /\ SettlementBy(LineErrorNull(i), i) = [outcome |-> "resolved", value |-> Num(1)]
    /\ SettlementBy(Line(ChunkResult(i)), i) = [outcome |-> "resolved", value |-> Num(1)]
    /\ SettlementBy(Line(ChunkBare(i)), i) = [outcome |-> "resolved", value |-> Undefined]

\* Call 2 is pending beside call 1 and the response to it has an error with an
\* empty message: call 2 is rejected with the stringified payload.
C15_Witness ==
  /\ DOMAIN pendingRequests = {1, 2}
  /\ SettlementBy(LineErrorEmptyMessage(2), 2).outcome = "rejected"
  /\ SettlementBy(LineErrorEmptyMessage(2), 2).value.message # <<>>

\* The response to request i whose result is the number i.
\* {"id":i,"result":i}
ChunkResultOf(i) ==
  <<"{", "I">> \o NumChars(i) \o <<",", "R">> \o NumChars(i) \o <<"}", "\n">>

\* call k has been resolved with the number v, once, in the callback that ends in d
ResolvedWith(d, k, v) ==
  LET of == {n \in 1..Len(d.settlements) : d.settlements[n].call = k}
  IN /\ Cardinality(of) = 1
     /\ \A n \in of :
          d.settlements[n] = [call |-> k, id |-> calls[k].id, outcome |-> "resolved",
                              value |-> Num(v)]

\* C16: responses may arrive in any order.  For any two pending calls, when
\* the responses to them arrive in either order, in one chunk or in two, each
\* call is resolved with the result of the response that has its id.
C16_ResponsesInAnyOrder ==
  \A i, j \in DOMAIN pendingRequests :
    i # j =>
      LET ki == pendingRequests[i].call
          kj == pendingRequests[j].call
          one == handleData(Self, ChunkResultOf(j) \o ChunkResultOf(i))
          first == handleData(Self, ChunkResultOf(j))
          second == handleData(Settled(first), ChunkResultOf(i))
      IN /\ ResolvedWith(one, ki, i) /\ ResolvedWith(one, kj, j)
         /\ Len(one.settlements) = 2
         /\ ResolvedWith(first, kj, j) /\ Len(first.settlements) = 1
         /\ ResolvedWith(second, ki, i) /\ Len(second.settlements) = 1

\* Calls 1 and 2 are pending and the response to call 2 comes before the
\* response to call 1, in the same chunk.
C16_Witness ==
  /\ DOMAIN pendingRequests = {1, 2}
  /\ LET d == handleData(Self, ChunkResultOf(2) \o ChunkResultOf(1))
     IN /\ d.settlements[1].id = 2 /\ d.settlements[1].value = Num(2)
        /\ d.settlements[2].id = 1 /\ d.settlements[2].value = Num(1)

\* C17: after disconnect(), from whatever state, the subprocess that
\* this.process referred to has been killed, process is null, isConnected is
\* false and pendingRequests is empty, nothing else of the client has changed,
\* and a sendRequest made then throws 'MCP process not running'.
C17_DisconnectClearsClient ==
  LET d == disconnect(Self)
  IN /\ process # 0 => d.procs = [procs EXCEPT ![process].killed = TRUE]
     /\ process = 0 => d.procs = procs
     /\ d.process = 0
     /\ ~d.isConnected
     /\ DOMAIN d.pendingRequests = {}
     /\ d = [Self EXCEPT !.procs = d.procs, !.process = 0, !.isConnected = FALSE,
                         !.pendingRequests = EmptyFields]
     /\ \A method \in Methods :
          sendRequest(Settled(d), method, 0) = [Settled(d) EXCEPT !.thrown = NotRunning]

\* The client is connected with call 2 pending when disconnect() is called.
C17_Witness ==
  /\ isConnected
  /\ process # 0
  /\ DOMAIN pendingRequests = {2}
  /\ disconnect(Self).procs[process].killed

\* The messages with a method field.
MethodLines ==
  {Line(ChunkNotification), LineEmptyMethod}
    \cup {LineRequest(i) : i \in 0..(MaxReq + 1)}
    \cup {LineRequestResult(i) : i \in 0..(MaxReq + 1)}

\* the id of the message is the id of a pending call
IdIsPending(message) ==
  /\ "id" \in DOMAIN message.o
  /\ message.o.id.t = "number"
  /\ message.o.id.n \in DOMAIN pendingRequests

\* handleData with the line emits the message once, settles nothing and leaves
\* the state as it is.
EmittedOnce(line, message) ==
  LET d == handleData(Self, line \o <<"\n">>)
  IN /\ d.emitted = <<message>>
     /\ d.settlements = <<>> /\ d.thrown = "" /\ d.caught = <<>>
     /\ Settled(d) = Settled(Self)

\* handleData with the line settles the call that its id names and emits
\* nothing.
SettledNotEmitted(line, message) ==
  LET d == handleData(Self, line \o <<"\n">>)
  IN /\ d.emitted = <<>>
     /\ Len(d.settlements) = 1
     /\ d.settlements[1].id = message.o.id.n

\* C18 as stated: a message that has a method field and whose id is absent or
\* the id of no pending call is emitted once as a notification and settles and
\* changes nothing; a message whose id is the id of a pending call is not
\* emitted, method field or not.
C18_MethodFieldMeansNotification ==
  DOMAIN procs # {} =>
    \A line \in MethodLines :
      LET message == JSONParse(toString(line)).val
      IN IF IdIsPending(message) THEN SettledNotEmitted(line, message)
         ELSE EmittedOnce(line, message)

\* C18, amended: the same for a method field that is not the empty string; a
\* message whose method is the empty string and whose id is the id of no
\* pending call is dropped: nothing is emitted, settled or changed.  The states
\* are those in which a subprocess has its stdout open.
C18_NonEmptyMethodMeansNotification ==
  DOMAIN procs # {} =>
    \A line \in MethodLines :
      LET message == JSONParse(toString(line)).val
          d == handleData(Self, line \o <<"\n">>)
      IN IF IdIsPending(message) THEN SettledNotEmitted(line, message)
         ELSE IF message.o.method = Str(<<>>)
           THEN /\ d.emitted = <<>> /\ d.settlements = <<>>
                /\ d.thrown = "" /\ d.caught = <<>>
                /\ Settled(d) = Settled(Self)
           ELSE EmittedOnce(line, message)

\* Call 2 is pending beside call 1: a message with method and id 2 settles
\* call 2 and is not emitted, a message with method and id 3 is emitted.
C18_Witness ==
  /\ DOMAIN pendingRequests = {1, 2}
  /\ handleData(Self, LineRequest(2) \o <<"\n">>).emitted = <<>>
  /\ Len(handleData(Self, LineRequest(2) \o <<"\n">>).settlements) = 1
  /\ Len(handleData(Self, LineRequest(3) \o <<"\n">>).emitted) = 1

\* text is one line: it ends with a newline, has no other newline, and what
\* is before the newline is the JSON of a request with that id
OneRequestLine(text, id) ==
  /\ Len(text) > 1
  /\ text[Len(text)] = "\n"
  /\ \A n \in 1..(Len(text) - 1) : text[n] # "\n"
  /\ LET parsed == ParseText(Line(text))
     IN /\ parsed.ok
        /\ Get(parsed.val, "id") = Num(id)
        /\ Truthy(Get(parsed.val, "method"))

\* C19: requests are written in the order in which sendRequest is called.  An
\* accepted sendRequest writes once, before it returns, to the subprocess of
\* this.process: one newline-terminated line with the id it has just assigned,
\* which is above every id written before; of two calls one after the other
\* the second writes the higher id.
C19_RequestsWrittenInCallOrder ==
  \A d \in Sends :
    \/ d.writes = <<>> /\ Settled(d).requestId = requestId
    \/ /\ Len(d.writes) = 1
       /\ d.writes[1].proc = process
       /\ d.writes[1].id = d.requestId
       /\ \A i \in history.ids : d.writes[1].id > i
       /\ OneRequestLine(d.writes[1].text, d.writes[1].id)
       /\ \A method \in Methods :
            LET e == sendRequest(Settled(d), method, 0)
            IN /\ Len(e.writes) = 1
               /\ e.writes[1].proc = d.writes[1].proc
               /\ e.writes[1].id > d.writes[1].id
               /\ OneRequestLine(e.writes[1].text, e.writes[1].id)

\* Request 1 has been written to the running subprocess and a caller sends the
\* next request: it goes to the same subprocess with id 2.
C19_Witness ==
  /\ process # 0
  /\ history.ids = {1}
  /\ DOMAIN pendingRequests = {1}
  /\ LET d == sendRequest(Self, "tools/call", 0)
     IN /\ d.writes[1].proc = process
        /\ d.writes[1].id = 2
        /\ d.writes[1].text[Len(d.writes[1].text)] = "\n"

\* the text after the last newline of text (all of it when it has none)
AfterLastNewline(text) ==
  LET at == {n \in 1..Len(text) : text[n] = "\n"}
      last == IF at = {} THEN 0 ELSE CHOOSE n \in at : \A m \in at : m <= n
  IN SubSeq(text, last + 1, Len(text))

\* C20: after every handleData call the buffer has no newline in it: it is
\* the text after the last newline of the buffer before the call followed by
\* the decoded chunk, empty when that text ends with a newline.
C20_BufferHoldsNoNewline ==
  /\ \A n \in 1..Len(buffer) : buffer[n] # "\n"
  /\ \A n \in 1..Len(stream) :
       LET data == SubSeq(stream, 1, n)
           d == handleData(Self, data)
       IN /\ d.buffer = AfterLastNewline(buffer \o toString(data))
          /\ \A m \in 1..Len(d.buffer) : d.buffer[m] # "\n"
          /\ data[n] = "\n" => d.buffer = <<>>

\* A fragment of a line is in the buffer after a message has been dispatched,
\* and the rest of the stream holds the end of that line and another line.
C20_Witness ==
  /\ buffer # <<>>
  /\ Len(delivered) >= 1
  /\ Cardinality({n \in 1..Len(stream) : stream[n] = "\n"}) = 2
  /\ handleData(Self, stream).buffer = <<>>

\* The writes of the 'notifications/initialized' message in the callback that
\* ends in d.
Notifications(d) ==
  {n \in 1..Len(d.writes) : d.writes[n].method = "notifications/initialized"}

\* The results of initialize requests that arrive in the callback that ends in
\* d: the calls of resolve, for the handshake of a connect call.
InitializeResults(d) ==
  {n \in 1..Len(d.settlements) :
     /\ d.settlements[n].outcome = "resolved"
     /\ calls[d.settlements[n].call].method = "initialize"
     /\ calls[d.settlements[n].call].conn # 0}

\* C21: the 'notifications/initialized' message is written only in the callback
\* in which the result of an initialize request arrives, once for that result,
\* without an id, and it registers no pending call and arms no timer;
\* isConnected becomes true only in a callback that has written it; a callback
\* in which a call is rejected, and every callback other than the stdout
\* listener, writes none.
C21_InitializedWrittenAfterResult ==
  /\ \A c \in OtherCallbacks : Notifications(RunMicrotasks(c)) = {}
  /\ \A data \in Chunks :
       LET c == handleData(Self, data)
           d == RunMicrotasks(c)
       IN /\ Cardinality(Notifications(d)) <= Cardinality(InitializeResults(d))
          /\ \A n \in Notifications(d) :
               /\ d.writes[n].id = 0
               /\ d.writes[n].text = <<"{", "M", "q", "a", "q", "}", "\n">>
          /\ Notifications(d) # {} =>
               /\ d.requestId = requestId
               /\ DOMAIN d.pendingRequests \subseteq DOMAIN pendingRequests
               /\ d.timers \subseteq timers
               /\ DOMAIN d.calls = DOMAIN calls
          /\ (~isConnected /\ d.isConnected) => Notifications(d) # {}
          /\ (\E n \in 1..Len(d.settlements) : d.settlements[n].outcome = "rejected") =>
               Notifications(d) = {}

\* The result of the initialize request of a connect call arrives while the
\* client is not connected: the notification is written to the subprocess and
\* isConnected becomes true; and in another state the initialize request is
\* answered with an error and nothing is written.
C21_Witness ==
  /\ ~isConnected
  /\ process # 0
  /\ \E i \in DOMAIN pendingRequests :
       /\ calls[pendingRequests[i].call].method = "initialize"
       /\ LET d == RunMicrotasks(handleData(Self, ChunkResult(i)))
              e == RunMicrotasks(handleData(Self, ChunkError(i)))
          IN /\ d.writes = <<[proc |-> process, id |-> 0,
                              method |-> "notifications/initialized",
                              text |-> <<"{", "M", "q", "a", "q", "}", "\n">>]>>
             /\ d.isConnected
             /\ e.writes = <<>>
             /\ e.outcomes # <<>>

\* A connect() promise resolves in the callback that ends in d.
ConnectResolves(d) ==
  \E n \in 1..Len(d.outcomes) : d.outcomes[n].outcome = "resolved"

C23_DisconnectIsFinal ==
  LET d == After(disconnect(Self)) IN
  /\ d.reconnectTimers = 0
  /\ \A p \in DOMAIN d.procs :
       d.procs[p].killed =>
         After(onClose([d EXCEPT !.procs = Drop(@, p)])).reconnectTimers = 0

\* C24: the close event of a subprocess that this.process does not refer to any
\* more, a later connect() having spawned the current one, leaves isConnected
\* and this.process as they are.
C24_StaleCloseLeavesCurrent ==
  \A p \in DOMAIN procs :
    (process # 0 /\ p # process) =>
      LET d == After(onClose([Self EXCEPT !.procs = Drop(@, p)]))
      IN d.isConnected = isConnected /\ d.process = process

\* The first chunk of a subprocess spawned in state c is the line: what
\* handleData hands to handleMessage.
FirstLineOf(c, line) == handleData(c, line \o <<"\n">>).dispatched

\* C25: what one subprocess has left in the buffer does not reach the lines of
\* the next.  When the subprocess exits and the reconnect timer spawns another,
\* and when disconnect() is followed by a caller's connect(), the first
\* well-formed line of the new subprocess is dispatched as itself.
C25_FragmentNotCarriedOver ==
  \A line \in {l \in WireLines : WellFormed(l)} :
    /\ \A p \in DOMAIN procs :
         LET exited == After(onClose([Self EXCEPT !.procs = Drop(@, p)]))
             respawned == After(connect([exited EXCEPT !.reconnectTimers = @ - 1], "timer"))
         IN /\ respawned.process \in DOMAIN respawned.procs \ {p}
            /\ FirstLineOf(respawned, line) = <<JSONParse(toString(line)).val>>
    /\ LET respawned == After(connect(After(disconnect(Self)), "caller"))
       IN /\ respawned.process \in DOMAIN respawned.procs \ DOMAIN procs
          /\ FirstLineOf(respawned, line) = <<JSONParse(toString(line)).val>>

\* C27: the handshake timer of the connect call that spawned p writes its
\* initialize request to p and to no other subprocess; as every connect call
\* arms one handshake timer, a subprocess then gets at most one initialize
\* request.
C27_HandshakeTimerAsksOwnSubprocess ==
  \A p \in handshakeTimers :
    LET d == handshakeTimer(Self, p) IN
    \A n \in 1..Len(d.writes) :
      d.writes[n].method = "initialize" => d.writes[n].proc = p

\* C29: reconnectAttempts is never below 0 and never above
\* maxReconnectAttempts, and no close event takes it out of that range.
C29_ReconnectAttemptsInRange ==
  /\ reconnectAttempts \in 0..maxReconnectAttempts
  /\ \A p \in DOMAIN procs :
       onClose([Self EXCEPT !.procs = Drop(@, p)]).reconnectAttempts
         \in 1..maxReconnectAttempts

\* After a handshake that had set the counter to 0, three subprocesses have
\* exited; the counter is at maxReconnectAttempts when the fourth one exits,
\* and it stays there.
C29_Witness ==
  /\ history.handshakes > 0
  /\ reconnectAttempts = maxReconnectAttempts
  /\ \E p \in DOMAIN procs :
       LET d == onClose([Self EXCEPT !.procs = Drop(@, p)])
       IN d.reconnectAttempts = maxReconnectAttempts /\ d.reconnectTimers = reconnectTimers

\* C30: while isConnected is true, this.process is not null: it refers to a
\* subprocess whose close event has not been emitted.
C30_ConnectedHasProcess ==
  isConnected => (process # 0 /\ process \in DOMAIN procs)

\* The client is connected while two subprocesses run: the close event of the
\* older one clears this.process and isConnected together, and so does
\* disconnect().
C30_Witness ==
  /\ isConnected
  /\ \E p \in DOMAIN procs :
       /\ p # process
       /\ LET d == onClose([Self EXCEPT !.procs = Drop(@, p)])
          IN d.process = 0 /\ ~d.isConnected
  /\ disconnect(Self).process = 0
  /\ ~disconnect(Self).isConnected

\* ------------------------------------------------------ the server: the claims

\* The requests other than initialize that the callback ending in d has
\* written: the writes that carry an id and another method.
RouteWrites(d) ==
  {n \in 1..Len(d.writes) : d.writes[n].id # 0 /\ d.writes[n].method # "initialize"}

\* C26: no request other than initialize is written to a subprocess that has
\* not answered an initialize request written to it.  The requests are those
\* of a route that ensureConnection lets pass, at once because isConnected is
\* true or after the connect() that it awaited has resolved.
C26_RequestsOnlyAfterHandshake ==
  /\ \A method \in Methods :
       isConnected =>
         LET d == Route(Self, method)
         IN \A n \in RouteWrites(d) : d.writes[n].proc \in initialized
  /\ \A data \in Chunks, method \in Methods :
       LET d == ensureConnectionContinue(RunMicrotasks(handleData(Self, data)), method)
       IN \A n \in RouteWrites(d) : d.writes[n].proc \in initialized \cup Answered(d)

\* C28: at most one connect() promise is unsettled, and while one is unsettled
\* and the client is not connected, isInitializing is set, so that
\* ensureConnection answers 503 and calls no connect().
C28_OneConnectInFlight ==
  /\ Cardinality(DOMAIN connects) <= 1
  /\ (DOMAIN connects # {} /\ ~isConnected) => isInitializing

====
